---- MODULE Spec2Model ----
(***************************************************************************)
(* Snapshot-test harness of tests/test_snapshots.py: case discovery,       *)
(* new-case allocation, the compare / update / create run lifecycle, the   *)
(* export of model outputs and the per-format file comparison.             *)
(*                                                                         *)
(* Directory and case names are sequences of one-character strings, so     *)
(* that startswith, name[4:], int() and the {:02d} format are computed and *)
(* not assumed.  Numbers in files are integers in units of 1e-8, the       *)
(* absolute tolerance of the comparison.                                   *)
(***************************************************************************)
EXTENDS Integers, Sequences, FiniteSets, TLC

\* ------------------------------------------------------------------------
\* Bounds of the model
\* ------------------------------------------------------------------------
MaxCaseNum == 3
MaxCases == 1
MaxRuns == 2
MaxItems == 2
MaxMembers == 2

\* ------------------------------------------------------------------------
\* Program constants
\* ------------------------------------------------------------------------
ABSOLUTE_TOLERANCE == 1
RELATIVE_TOLERANCE == 0
accepted_run_types == <<"compare", "update", "create">>

None == -1
NoError == "none"

\* ------------------------------------------------------------------------
\* Strings as character sequences
\* ------------------------------------------------------------------------
CasePrefix == <<"C", "a", "s", "e">>
DigitChars == <<"0", "1", "2", "3", "4", "5", "6", "7", "8", "9">>

Range(s) == {s[i] : i \in DOMAIN s}

\* str.startswith
startswith(name, prefix) ==
    /\ Len(name) >= Len(prefix)
    /\ SubSeq(name, 1, Len(prefix)) = prefix

DigitValue(c) == (CHOOSE i \in DOMAIN DigitChars : DigitChars[i] = c) - 1

\* int(s) accepts a non-empty run of decimal digits; anything else raises ValueError
IsInt(s) == Len(s) > 0 /\ \A i \in DOMAIN s : s[i] \in Range(DigitChars)

RECURSIVE IntOf(_)
IntOf(s) ==
    IF Len(s) = 0 THEN 0
    ELSE 10 * IntOf(SubSeq(s, 1, Len(s) - 1)) + DigitValue(s[Len(s)])

RECURSIVE Digits(_)
Digits(n) ==
    IF n < 10 THEN <<DigitChars[n + 1]>>
    ELSE Digits(n \div 10) \o <<DigitChars[(n % 10) + 1]>>

\* f"{n:02d}" for n >= 0
Format02d(n) == IF n < 10 THEN <<"0">> \o Digits(n) ELSE Digits(n)

\* f"Case{new_case_number:02d}"
CaseName(n) == CasePrefix \o Format02d(n)

\* c.name[4:]
NameSuffix(name) == SubSeq(name, 5, Len(name))

\* ------------------------------------------------------------------------
\* Files and folders
\* ------------------------------------------------------------------------
\* A data file is [stem, ext, data]; data is a sequence of [name, val]:
\* the columns of a one-row csv, the members of an npz archive, the keys of
\* a json object.
Cell(n, v) == [name |-> n, val |-> v]
File(s, e, d) == [stem |-> s, ext |-> e, data |-> d]

\* A folder is absent, a directory holding files, or a regular file in its place.
AbsentFolder == [state |-> "absent", files |-> {}]
Dir(fs) == [state |-> "dir", files |-> fs]
FileInPlace == [state |-> "file", files |-> {}]

\* The Inputs folder of a case or of the project, with its settings.json.
EmptyDict == [k \in {} |-> 0]
NoInputs == [dir |-> FALSE, file |-> FALSE, dict |-> EmptyDict]
Inputs(d) == [dir |-> TRUE, file |-> TRUE, dict |-> d]

\* An entry of the snapshots directory.
CaseDir(n, i, e, t) ==
    [name |-> n, kind |-> "dir", inputs |-> i, expected |-> e, temp |-> t]
PlainFile(n) ==
    [name |-> n, kind |-> "file", inputs |-> NoInputs, expected |-> AbsentFolder,
     temp |-> AbsentFolder]

\* The snapshots directory: whether it exists, and its entries.
Snapshots(x, es) == [exists |-> x, entries |-> es]
EntryNames(snap) == {e.name : e \in snap.entries}
Entry(snap, name) == CHOOSE e \in snap.entries : e.name = name
HasEntry(snap, name) == \E e \in snap.entries : e.name = name
PutEntry(snap, e) ==
    Snapshots(TRUE, {x \in snap.entries : x.name # e.name} \cup {e})

\* ------------------------------------------------------------------------
\* find_cases
\* ------------------------------------------------------------------------
\* A slip: the is_dir() test left out.
IsCaseByName(snap, name) == startswith(name, CasePrefix)

\* f.is_dir() and f.name.startswith("Case")
IsCase(snap, name) ==
    /\ Entry(snap, name).kind = "dir"
    /\ startswith(name, CasePrefix)

\* The list of case directories, in the order the directory is listed
\* (order: the sequence of entry names that iterdir yields).
find_cases(snap, order) ==
    IF snap.exists
    THEN SelectSeq(order, LAMBDA n : IsCase(snap, n))
    ELSE <<>>

\* ------------------------------------------------------------------------
\* create_new_case_folder
\* ------------------------------------------------------------------------
SetMax(S) == CHOOSE m \in S : \A x \in S : x <= m

\* for i in range(1, hi): if i not in case_numbers: new_case_number = i
RECURSIVE ScanGaps(_, _, _, _)
ScanGaps(i, hi, case_numbers, new_case_number) ==
    IF i >= hi THEN new_case_number
    ELSE ScanGaps(i + 1, hi, case_numbers,
                  IF i \notin case_numbers THEN i ELSE new_case_number)

\* A slip: the + 1 left out, so that the highest case is taken again.
ReusedNumber(case_numbers) ==
    LET n == ScanGaps(1, SetMax(case_numbers), case_numbers, None)
    IN  IF n = None THEN SetMax(case_numbers) ELSE n

\* The number of the new case, for a non-empty set of case numbers.
new_case_number(case_numbers) ==
    LET n == ScanGaps(1, SetMax(case_numbers), case_numbers, None)
    IN  IF n = None THEN SetMax(case_numbers) + 1 ELSE n

\* A slip: max(case_numbers, default=0), so that an empty list gives case 1.
NumberOrDefault(case_numbers) ==
    IF case_numbers = {}
    THEN [err |-> NoError, number |-> 1]
    ELSE [err |-> NoError, number |-> new_case_number(case_numbers)]

\* max(case_numbers) raises ValueError on an empty list.
NumberOrError(case_numbers) ==
    IF case_numbers = {}
    THEN [err |-> "ValueError", number |-> None]
    ELSE [err |-> NoError, number |-> new_case_number(case_numbers)]

\* new_case_dir.mkdir(parents=True, exist_ok=True)
MkCaseDir(snap, name) ==
    IF HasEntry(snap, name)
    THEN [err |-> IF Entry(snap, name).kind = "dir" THEN NoError ELSE "FileExistsError",
          snap |-> snap]
    ELSE [err |-> NoError,
          snap |-> PutEntry(snap, CaseDir(name, NoInputs, AbsentFolder, AbsentFolder))]

\* Result: the error raised (or NoError), the number and name chosen, and the
\* snapshots directory afterwards.
create_new_case_folder(snap, order) ==
    LET cases == find_cases(snap, order)
        bad == \E i \in DOMAIN cases : ~IsInt(NameSuffix(cases[i]))
        case_numbers == {IntOf(NameSuffix(cases[i])) : i \in DOMAIN cases}
        chosen == NumberOrError(case_numbers)
    IN  IF bad
        THEN [err |-> "ValueError", number |-> None, name |-> <<>>, snap |-> snap]
        ELSE IF chosen.err # NoError
        THEN [err |-> chosen.err, number |-> None, name |-> <<>>, snap |-> snap]
        ELSE LET made == MkCaseDir(snap, CaseName(chosen.number))
             IN  [err |-> made.err, number |-> chosen.number,
                  name |-> CaseName(chosen.number), snap |-> made.snap]

\* ------------------------------------------------------------------------
\* load_settings, export_settings
\* ------------------------------------------------------------------------
SetKey(d, key, v) ==
    [k \in DOMAIN d \cup {key} |-> IF k = key THEN v ELSE d[k]]

\* A slip: the flag left as it was read.
FlagAsRead(d) ==
    IF "create_output_files" \in DOMAIN d THEN d["create_output_files"] ELSE FALSE

\* The value forced into settings["create_output_files"].
ForcedFlag(d) == FALSE

\* open() raises FileNotFoundError when Inputs/settings.json is missing.
load_settings(inputs) ==
    IF ~(inputs.dir /\ inputs.file)
    THEN [err |-> "FileNotFoundError", settings |-> EmptyDict]
    ELSE [err |-> NoError,
          settings |-> SetKey(inputs.dict, "create_output_files", ForcedFlag(inputs.dict))]

\* rmtree the Inputs folder if present, recreate it, dump the settings.
export_settings(settings) == Inputs(settings)

\* ------------------------------------------------------------------------
\* The model, src/main.py
\* ------------------------------------------------------------------------
Item(f, e, d) == [filename |-> f, extension |-> e, data |-> d]

\* item.export_to_file(folder_dir): a file named after the item, of the
\* item's extension, replacing a file of that name.
WriteItem(files, item) ==
    {f \in files : ~(f.stem = item.filename /\ f.ext = item.extension)}
        \cup {File(item.filename, item.extension, item.data)}

RECURSIVE WriteItems(_, _)
WriteItems(files, items) ==
    IF items = <<>> THEN files
    ELSE WriteItems(WriteItem(files, Head(items)), Tail(items))

\* Result: the error raised, the output set, and the files the model itself
\* writes into the project's output folder (when create_output_files is set).
main(settings_dict, projectFiles) ==
    IF ~({"a", "b"} \subseteq DOMAIN settings_dict)
    THEN [err |-> "KeyError", output_set |-> <<>>, written |-> projectFiles]
    ELSE LET output_set ==
                 <<Item("df", "csv",
                        <<Cell("total", settings_dict["a"] - settings_dict["b"])>>)>>
         IN  IF "create_output_files" \notin DOMAIN settings_dict
             THEN [err |-> "KeyError", output_set |-> <<>>, written |-> projectFiles]
             ELSE [err |-> NoError, output_set |-> output_set,
                   written |-> IF settings_dict["create_output_files"]
                               THEN WriteItems(projectFiles, output_set)
                               ELSE projectFiles]

\* ------------------------------------------------------------------------
\* export_outputs
\* ------------------------------------------------------------------------
\* The items export_outputs writes.
Exported(item) == item.extension # "html"

\* A slip: the folder is not removed before it is written.
KeptFiles(folder) == folder.files

\* The folder once cleared: removed if it is a directory, then recreated.
\* mkdir(exist_ok=True) raises FileExistsError on a regular file.
ClearedFiles(folder) == {}

export_outputs(folder, output_set) ==
    IF folder.state = "file"
    THEN [err |-> "FileExistsError", folder |-> folder]
    ELSE [err |-> NoError,
          folder |-> Dir(WriteItems(ClearedFiles(folder),
                                    SelectSeq(output_set, Exported)))]

\* ------------------------------------------------------------------------
\* Comparators
\* ------------------------------------------------------------------------
Abs(x) == IF x < 0 THEN -x ELSE x

\* |actual - desired| <= atol + rtol * |desired|
Close(actual, desired) ==
    Abs(actual - desired) <= ABSOLUTE_TOLERANCE + RELATIVE_TOLERANCE * Abs(desired)

Names(data) == {data[i].name : i \in DOMAIN data}
Lookup(data, n) == (CHOOSE i \in DOMAIN data : data[i].name = n)

\* pd.testing.assert_frame_equal: same columns in the same order, cells
\* within tolerance.
assert_csv(data, expected_data) ==
    IF /\ Len(data) = Len(expected_data)
       /\ \A i \in DOMAIN data :
            /\ data[i].name = expected_data[i].name
            /\ Close(data[i].val, expected_data[i].val)
    THEN NoError ELSE "AssertionError"

\* assert data == expected_data: mappings equal whatever the order of keys.
assert_json(data, expected_data) ==
    IF Range(data) = Range(expected_data) THEN NoError ELSE "AssertionError"

\* A slip: only the expected members are looked for.
KeysMissing(data, expected_data) == ~(Names(expected_data) \subseteq Names(data))

\* set(data.files) != set(expected_data.files)
KeysDiffer(data, expected_data) == Names(data) # Names(expected_data)

\* The loop over expected_data.files from member i on; compared collects the
\* members np.testing.assert_allclose was called on.
RECURSIVE CompareMembers(_, _, _, _)
CompareMembers(data, expected_data, i, compared) ==
    IF i > Len(expected_data) THEN [err |-> NoError, compared |-> compared]
    ELSE LET name == expected_data[i].name
             seen == Append(compared, name)
         IN  IF Close(data[Lookup(data, name)].val, expected_data[i].val)
             THEN CompareMembers(data, expected_data, i + 1, seen)
             ELSE [err |-> "AssertionError", compared |-> seen]

assert_npz(data, expected_data) ==
    IF KeysDiffer(data, expected_data)
    THEN [err |-> "KeyError", compared |-> <<>>]
    ELSE CompareMembers(data, expected_data, 1, <<>>)

HasFile(files, f) == \E g \in files : g.stem = f.stem /\ g.ext = f.ext
GetFile(files, f) == CHOOSE g \in files : g.stem = f.stem /\ g.ext = f.ext

\* assert_file on the expected file f against the file of the same relative
\* path among the produced files; reading a missing produced file raises
\* FileNotFoundError.
assert_file(files, f) ==
    IF f.ext = "html" THEN NoError
    ELSE IF f.ext \notin {"csv", "json", "npz"} THEN "ValueError"
    ELSE IF ~HasFile(files, f) THEN "FileNotFoundError"
    ELSE IF f.ext = "csv" THEN assert_csv(GetFile(files, f).data, f.data)
    ELSE IF f.ext = "json" THEN assert_json(GetFile(files, f).data, f.data)
    ELSE assert_npz(GetFile(files, f).data, f.data).err

\* os.walk of the expected outputs folder: its files (none when it is absent
\* or not a directory).
WalkFiles(folder) == IF folder.state = "dir" THEN folder.files ELSE {}

\* ------------------------------------------------------------------------
\* State
\* ------------------------------------------------------------------------
VARIABLES
    snap,          \* the snapshots directory tests/snapshots
    order,         \* the order in which the snapshots directory lists its entries
    project,       \* the project's Inputs folder
    projectFiles,  \* files the model itself wrote into the project's output folder
    run_type,      \* argument of the current call of test_snapshots
    pc,            \* position of the call: idle, loop, main, export, compare, done, failed
    cases,         \* the list the for loop iterates
    idx,           \* index of the case being processed
    settings,      \* settings loaded for the current case
    output_set,    \* outputs of the model for the current case
    walk,          \* expected files of the current case still to be compared
    err,           \* the exception that ended the call, NoError if none
    io,            \* the operations the call has performed so far
    alloc,         \* the case number chosen by create_new_case_folder in this call
    snap0,         \* the snapshots directory when the call started
    prev,          \* the run before this one: its type and the directory it left
    runs,          \* number of calls so far
    fn             \* arguments and result of a function applied on its own

vars == <<snap, order, project, projectFiles, run_type, pc, cases, idx, settings,
          output_set, walk, err, io, alloc, snap0, prev, runs, fn>>

fsVars == <<snap, order, project, projectFiles>>
localVars == <<cases, idx, settings, output_set, walk>>

\* ------------------------------------------------------------------------
\* Initial file trees
\* ------------------------------------------------------------------------
Dict3(a, b, c) ==
    [k \in {"a", "b", "create_output_files"} |->
        IF k = "a" THEN a ELSE IF k = "b" THEN b ELSE c]
Dict2(a, b) == [k \in {"a", "b"} |-> IF k = "a" THEN a ELSE b]
DictNoB(a, c) == [k \in {"a", "create_output_files"} |-> IF k = "a" THEN a ELSE c]

DfCsv(v) == File("df", "csv", <<Cell("total", v)>>)
NotesTxt == File("notes", "txt", <<>>)
ReportHtml == File("report", "html", <<>>)

\* Contents a case directory starts with: its settings and its expected outputs.
CaseKinds ==
    << \* compare passes (the html file is skipped); update rewrites the folder
       [inputs |-> Inputs(Dict3(3, 2, TRUE)), expected |-> Dir({DfCsv(2), ReportHtml})],
       \* compare fails: a value out of tolerance, an unsupported extension
       [inputs |-> Inputs(Dict2(3, 2)), expected |-> Dir({DfCsv(3), NotesTxt})],
       \* settings.json is missing
       [inputs |-> NoInputs, expected |-> Dir({DfCsv(1)})],
       \* the model fails on a missing key
       [inputs |-> Inputs(DictNoB(3, FALSE)), expected |-> Dir({DfCsv(1)})],
       \* ExpectedOutputs is a regular file: update cannot export
       [inputs |-> Inputs(Dict3(3, 2, FALSE)), expected |-> FileInPlace] >>

ProjectChoices ==
    { Inputs(Dict3(4, 2, TRUE)), Inputs(Dict2(3, 2)), NoInputs }

NotACase == <<"N", "o", "t", "A", "C", "a", "s", "e">>
Case02txt == <<"C", "a", "s", "e", "0", "2", ".", "t", "x", "t">>
Strays == { CaseDir(NotACase, NoInputs, AbsentFolder, AbsentFolder), PlainFile(Case02txt) }

\* All orderings of a finite set
Orderings(S) ==
    {f \in [1..Cardinality(S) -> S] : \A i, j \in 1..Cardinality(S) : i # j => f[i] # f[j]}

\* s with x inserted after its first k elements
InsertAt(s, k, x) == SubSeq(s, 1, k) \o <<x>> \o SubSeq(s, k + 1, Len(s))

NoPrev == [type |-> "none", snap |-> Snapshots(FALSE, {})]
NoFn == [op |-> "none"]

Idle ==
    /\ run_type = "none"
    /\ pc = "idle"
    /\ cases = <<>>
    /\ idx = 1
    /\ settings = EmptyDict
    /\ output_set = <<>>
    /\ walk = {}
    /\ err = NoError
    /\ io = {}
    /\ alloc = None
    /\ prev = NoPrev
    /\ runs = 0

\* The snapshots directory is missing, or holds up to MaxCases case
\* directories numbered in 1..MaxCaseNum, each of any kind, listed in any
\* order, beside a directory and a regular file that are no cases.  The
\* entries that are no cases are listed last: find_cases drops them wherever
\* they stand.
Init ==
    /\ \/ /\ snap = Snapshots(FALSE, {})
          /\ order = <<>>
       \/ \E S \in SUBSET (1..MaxCaseNum), strays \in {Strays} :
            /\ Cardinality(S) <= MaxCases
            /\ \E kind \in [S -> DOMAIN CaseKinds] :
                 snap = Snapshots(TRUE,
                          {CaseDir(CaseName(n), CaseKinds[kind[n]].inputs,
                                   CaseKinds[kind[n]].expected, AbsentFolder) : n \in S}
                          \cup strays)
            /\ \E o \in Orderings({CaseName(n) : n \in S}) :
                 order = o \o (IF strays = {} THEN <<>> ELSE <<NotACase, Case02txt>>)
    /\ project \in ProjectChoices
    /\ projectFiles = {}
    /\ snap0 = snap
    /\ fn = NoFn
    /\ Idle

\* ------------------------------------------------------------------------
\* test_snapshots
\* ------------------------------------------------------------------------
RunTypes == {"compare", "update", "create", "bogus"}

\* A slip: no validation.
AnyRunType(rt) == TRUE

\* run_type in accepted_run_types
ValidRunType(rt) == rt \in Range(accepted_run_types)

\* A slip: the exception is swallowed and the loop goes on to the next case.
Swallowed(i) == [pc |-> "loop", idx |-> i + 1]

\* The position of the call after an exception in case i: nothing catches it.
Raised(i) == [pc |-> "failed", idx |-> i]

\* A new call can start when none is in progress.
CanCall == pc \in {"idle", "done", "failed"} /\ runs < MaxRuns

StartCall(rt) ==
    /\ CanCall
    /\ run_type' = rt
    /\ runs' = runs + 1
    /\ snap0' = snap
    /\ prev' = IF pc # "idle" /\ run_type = "update"
               THEN [type |-> "update", snap |-> snap] ELSE NoPrev
    /\ idx' = 1
    /\ settings' = EmptyDict
    /\ output_set' = <<>>
    /\ walk' = {}
    /\ UNCHANGED <<project, projectFiles, fn>>

\* Input validation fails: ValueError
CallInvalid ==
    \E rt \in RunTypes :
        /\ ~ValidRunType(rt)
        /\ StartCall(rt)
        /\ pc' = "failed"
        /\ err' = "ValueError"
        /\ cases' = <<>>
        /\ io' = {}
        /\ alloc' = None
        /\ UNCHANGED <<snap, order>>

\* run_type == "create": cases = [create_new_case_folder()]
CallCreate ==
    \E rt \in RunTypes :
        /\ ValidRunType(rt)
        /\ rt = "create"
        /\ StartCall(rt)
        /\ LET r == create_new_case_folder(snap, order)
           IN  /\ io' = {"find_cases", "create_new_case_folder"}
               /\ err' = r.err
               /\ alloc' = r.number
               /\ snap' = r.snap
               /\ IF r.err # NoError
                  THEN /\ pc' = Raised(1).pc
                       /\ cases' = <<>>
                       /\ order' = order
                  ELSE /\ pc' = "loop"
                       /\ cases' = <<r.name>>
                       /\ IF HasEntry(snap, r.name)
                          THEN order' = order
                          ELSE \E k \in 0..Len(order) : order' = InsertAt(order, k, r.name)

\* otherwise: cases = find_cases()
CallFind ==
    \E rt \in RunTypes :
        /\ ValidRunType(rt)
        /\ rt # "create"
        /\ StartCall(rt)
        /\ io' = {"find_cases"}
        /\ err' = NoError
        /\ alloc' = None
        /\ cases' = find_cases(snap, order)
        /\ pc' = "loop"
        /\ UNCHANGED <<snap, order>>

\* The for loop is exhausted: the call returns.
Return ==
    /\ pc = "loop"
    /\ idx > Len(cases)
    /\ pc' = "done"
    /\ UNCHANGED <<fsVars, run_type, localVars, err, io, alloc, snap0, prev, runs, fn>>

Fail(e) ==
    /\ err' = e
    /\ pc' = Raised(idx).pc
    /\ idx' = Raised(idx).idx

\* settings = load_settings(base_dir=inputs_base_dir)
LoadSettings ==
    /\ pc = "loop"
    /\ idx <= Len(cases)
    /\ LET inputs == IF run_type = "create" THEN project
                     ELSE Entry(snap, cases[idx]).inputs
           r == load_settings(inputs)
       IN  /\ io' = io \cup {"load_settings"}
           /\ settings' = r.settings
           /\ IF r.err # NoError
              THEN Fail(r.err)
              ELSE pc' = "main" /\ err' = err /\ idx' = idx
    /\ UNCHANGED <<fsVars, run_type, cases, output_set, walk, alloc, snap0, prev, runs, fn>>

\* output_set = main(settings)
RunModel ==
    /\ pc = "main"
    /\ LET r == main(settings, projectFiles)
       IN  /\ io' = io \cup {"main"}
           /\ output_set' = r.output_set
           /\ projectFiles' = r.written
           /\ IF r.err # NoError
              THEN Fail(r.err)
              ELSE pc' = "export" /\ err' = err /\ idx' = idx
    /\ UNCHANGED <<snap, order, project, run_type, cases, settings, walk, alloc, snap0,
                   prev, runs, fn>>

\* A slip: update exports the settings as well.
ExportsSettingsAlways(rt) == rt \in {"create", "update"}

\* if run_type == "create": export_settings(...)
ExportsSettings(rt) == rt = "create"

\* The case directory after the export step of the loop body, and the error
\* the step raised: create writes the settings and ExpectedOutputs, update
\* writes ExpectedOutputs, compare writes TempOutputs.
ExportStep(rt, entry, sets, outs) ==
    LET e1 == IF ExportsSettings(rt)
              THEN [entry EXCEPT !.inputs = export_settings(sets)] ELSE entry
        r1 == IF rt = "create" THEN export_outputs(e1.expected, outs)
              ELSE [err |-> NoError, folder |-> e1.expected]
        e2 == [e1 EXCEPT !.expected = r1.folder]
    IN  IF r1.err # NoError THEN [err |-> r1.err, entry |-> e2]
        ELSE IF rt = "update"
             THEN LET r2 == export_outputs(e2.expected, outs)
                  IN  [err |-> r2.err, entry |-> [e2 EXCEPT !.expected = r2.folder]]
        ELSE IF rt = "compare"
             THEN LET r3 == export_outputs(e2.temp, outs)
                  IN  [err |-> r3.err, entry |-> [e2 EXCEPT !.temp = r3.folder]]
        ELSE [err |-> NoError, entry |-> e2]

Export ==
    /\ pc = "export"
    /\ LET r == ExportStep(run_type, Entry(snap, cases[idx]), settings, output_set)
       IN  /\ snap' = PutEntry(snap, r.entry)
           /\ io' = io \cup {"export"}
           /\ IF r.err # NoError
              THEN Fail(r.err) /\ walk' = walk
              ELSE /\ err' = err
                   /\ IF run_type = "compare"
                      THEN /\ pc' = "compare"
                           /\ idx' = idx
                           /\ walk' = WalkFiles(r.entry.expected)
                      ELSE /\ pc' = "loop"
                           /\ idx' = idx + 1
                           /\ walk' = walk
    /\ UNCHANGED <<order, project, projectFiles, run_type, cases, settings, output_set,
                   alloc, snap0, prev, runs, fn>>

\* compare_outputs: one expected file, in the order os.walk yields them
CompareFile ==
    /\ pc = "compare"
    /\ \E f \in walk :
         LET e == assert_file(Entry(snap, cases[idx]).temp.files, f)
         IN  /\ walk' = walk \ {f}
             /\ io' = io \cup {"assert_file"}
             /\ IF e # NoError
                THEN Fail(e)
                ELSE pc' = pc /\ err' = err /\ idx' = idx
    /\ UNCHANGED <<fsVars, run_type, cases, settings, output_set, alloc, snap0, prev,
                   runs, fn>>

\* shutil.rmtree(outputs_base_dir), after compare_outputs returned
RemoveTemp ==
    /\ pc = "compare"
    /\ walk = {}
    /\ snap' = PutEntry(snap, [Entry(snap, cases[idx]) EXCEPT !.temp = AbsentFolder])
    /\ io' = io \cup {"rmtree"}
    /\ pc' = "loop"
    /\ idx' = idx + 1
    /\ UNCHANGED <<order, project, projectFiles, run_type, cases, settings, output_set,
                   walk, err, alloc, snap0, prev, runs, fn>>

Next ==
    \/ CallInvalid
    \/ CallCreate
    \/ CallFind
    \/ LoadSettings
    \/ RunModel
    \/ Export
    \/ CompareFile
    \/ RemoveTemp
    \/ Return

Spec == Init /\ [][Next]_vars

\* ------------------------------------------------------------------------
\* export_outputs and assert_npz applied on their own
\* ------------------------------------------------------------------------
\* The harness stands still while a function is applied on its own.
HarnessAtRest ==
    /\ snap = Snapshots(FALSE, {})
    /\ order = <<>>
    /\ project = NoInputs
    /\ projectFiles = {}
    /\ snap0 = snap
    /\ Idle

SeqsUpTo(S, n) == UNION {[1..k -> S] : k \in 0..n}

\* Files lying in the folder before the call.
StaleFiles == { DfCsv(9), NotesTxt, ReportHtml }
FolderChoices == {AbsentFolder, FileInPlace} \cup {Dir(fs) : fs \in SUBSET StaleFiles}

ItemChoices ==
    { Item("df", "csv", <<Cell("total", 1)>>),
      Item("df", "csv", <<Cell("total", 2)>>),
      Item("report", "html", <<Cell("id", 7)>>),
      Item("arr", "npz", <<Cell("x", 0)>>) }

InitExport ==
    /\ HarnessAtRest
    /\ \E f \in FolderChoices, o \in SeqsUpTo(ItemChoices, MaxItems) :
         fn = [op |-> "export_outputs", folder |-> f, output_set |-> o,
               done |-> FALSE, err |-> NoError, after |-> f]

ApplyExport ==
    /\ fn.op = "export_outputs"
    /\ ~fn.done
    /\ LET r == export_outputs(fn.folder, fn.output_set)
       IN  fn' = [fn EXCEPT !.done = TRUE, !.err = r.err, !.after = r.folder]
    /\ UNCHANGED <<snap, order, project, projectFiles, run_type, pc, cases, idx, settings,
                   output_set, walk, err, io, alloc, snap0, prev, runs>>

NextExport == ApplyExport

SpecExport == InitExport /\ [][NextExport]_vars

\* npz archives: members with distinct names
MemberNames == {"x", "y", "z"}
MemberValues == {0, 1, 2}
Archives ==
    {a \in SeqsUpTo({Cell(n, v) : n \in MemberNames, v \in MemberValues}, MaxMembers) :
        \A i, j \in DOMAIN a : i # j => a[i].name # a[j].name}

InitNpz ==
    /\ HarnessAtRest
    /\ \E d \in Archives, e \in Archives :
         fn = [op |-> "assert_npz", data |-> d, expected_data |-> e,
               done |-> FALSE, err |-> NoError, compared |-> <<>>]

ApplyNpz ==
    /\ fn.op = "assert_npz"
    /\ ~fn.done
    /\ LET r == assert_npz(fn.data, fn.expected_data)
       IN  fn' = [fn EXCEPT !.done = TRUE, !.err = r.err, !.compared = r.compared]
    /\ UNCHANGED <<snap, order, project, projectFiles, run_type, pc, cases, idx, settings,
                   output_set, walk, err, io, alloc, snap0, prev, runs>>

NextNpz == ApplyNpz

SpecNpz == InitNpz /\ [][NextNpz]_vars

\* ------------------------------------------------------------------------
\* Properties
\* ------------------------------------------------------------------------
Terminal == pc \in {"done", "failed"}

\* A case directory, told without find_cases: a directory whose name begins
\* with the four characters C, a, s, e.
LooksLikeCase(e) ==
    /\ e.kind = "dir"
    /\ Len(e.name) >= 4
    /\ e.name[1] = "C" /\ e.name[2] = "a" /\ e.name[3] = "s" /\ e.name[4] = "e"

\* The numbers of the cases the snapshots directory s holds.
CaseNumbers(s) ==
    IF s.exists
    THEN {IntOf(NameSuffix(e.name)) : e \in {x \in s.entries : LooksLikeCase(x)}}
    ELSE {}

SetMin(S) == CHOOSE m \in S : \A x \in S : m <= x
Gaps(S) == {i \in 1..(SetMax(S) - 1) : i \notin S}

\* C1: create_new_case_folder, given a non-empty set S of case numbers,
\* chooses the smallest positive integer below max(S) that is not in S, and
\* max(S) + 1 only when there is none.
C1_SmallestGap ==
    (run_type = "create" /\ alloc # None /\ CaseNumbers(snap0) # {}) =>
        alloc = IF Gaps(CaseNumbers(snap0)) # {}
                THEN SetMin(Gaps(CaseNumbers(snap0)))
                ELSE SetMax(CaseNumbers(snap0)) + 1

\* C2: no terminal state of a compare run, successful or failed, has a
\* TempOutputs folder in any case.
C2_NoTempLeft ==
    (run_type = "compare" /\ Terminal) =>
        \A e \in snap.entries : e.temp.state = "absent"

\* C3: a run_type other than compare, update, create fails with ValueError
\* before any I/O: no case is discovered or allocated, no settings are read,
\* the model is not run, the file tree is as it was.
C3_InvalidRunType ==
    (run_type \notin {"none", "compare", "update", "create"}) =>
        /\ pc = "failed"
        /\ err = "ValueError"
        /\ io = {}
        /\ cases = <<>>
        /\ alloc = None
        /\ settings = EmptyDict
        /\ output_set = <<>>
        /\ snap = snap0
        /\ projectFiles = {}

C3_Witness ==
    /\ run_type = "bogus"
    /\ pc = "failed"
    /\ \E e \in snap0.entries : LooksLikeCase(e)

\* C4: with no case directory, create fails with an error and creates no
\* case directory, Inputs folder or ExpectedOutputs folder.
C4_NoCasesFails ==
    (run_type = "create" /\ CaseNumbers(snap0) = {}) =>
        /\ pc = "failed"
        /\ err = "ValueError"
        /\ alloc = None
        /\ snap = snap0

C4_Witness ==
    /\ run_type = "create"
    /\ pc = "failed"
    /\ snap0.exists
    /\ snap0.entries # {}
    /\ CaseNumbers(snap0) = {}

\* The settings stored in the case created by this call.
StoredInputs == Entry(snap, cases[1]).inputs

\* C5 as stated: after create, the stored settings are the project's
\* settings verbatim, create_output_files included.
C5_Verbatim ==
    (run_type = "create" /\ pc = "done") =>
        /\ StoredInputs.file
        /\ StoredInputs.dict = project.dict

\* C5 amended: after create, the stored settings hold every key of the
\* project's settings with the project's value, except create_output_files,
\* which is stored as false and is added when the project lacks it; no other
\* key is added and none is removed.
C5_VerbatimButFlag ==
    (run_type = "create" /\ pc = "done") =>
        /\ StoredInputs.file
        /\ DOMAIN StoredInputs.dict = DOMAIN project.dict \cup {"create_output_files"}
        /\ StoredInputs.dict["create_output_files"] = FALSE
        /\ \A k \in DOMAIN project.dict \ {"create_output_files"} :
             StoredInputs.dict[k] = project.dict[k]

C5_Witness ==
    /\ run_type = "create"
    /\ pc = "done"
    /\ "create_output_files" \in DOMAIN project.dict
    /\ project.dict["create_output_files"] = TRUE
    /\ StoredInputs.dict["create_output_files"] = FALSE

\* The items of the call's output set that are not html
NonHtml == {i \in DOMAIN fn.output_set : fn.output_set[i].extension # "html"}

\* The last item of the output set written under the name of file f
LastWriter(f) ==
    CHOOSE i \in NonHtml :
        /\ fn.output_set[i].filename = f.stem
        /\ fn.output_set[i].extension = f.ext
        /\ \A j \in NonHtml :
             (fn.output_set[j].filename = f.stem /\ fn.output_set[j].extension = f.ext)
                => j <= i

\* C6: after export_outputs returns, whatever the folder held before, it
\* holds exactly one file for each item that is not html and nothing else:
\* no file from before the call survives and no html item is written.
C6_ExportExact ==
    (fn.done /\ fn.err = NoError) =>
        /\ fn.after.state = "dir"
        /\ \A i \in NonHtml :
             Cardinality({f \in fn.after.files :
                            /\ f.stem = fn.output_set[i].filename
                            /\ f.ext = fn.output_set[i].extension}) = 1
        /\ \A f \in fn.after.files :
             /\ \E i \in NonHtml : /\ fn.output_set[i].filename = f.stem
                                   /\ fn.output_set[i].extension = f.ext
             /\ f.data = fn.output_set[LastWriter(f)].data
        /\ \A f \in fn.after.files : f.ext # "html"

C6_Witness ==
    /\ fn.done
    /\ fn.err = NoError
    /\ fn.folder.files = StaleFiles
    /\ \E i \in DOMAIN fn.output_set : fn.output_set[i].extension = "html"
    /\ \E i \in DOMAIN fn.output_set : fn.output_set[i].extension = "csv"
    /\ Cardinality(fn.after.files) = 1

\* The cases of the snapshots directory s, by name
ExpectedOf(s) == {<<e.name, e.expected>> : e \in s.entries}
InputsOf(s) == {<<e.name, e.inputs>> : e \in s.entries}

\* C7: update run twice in a row leaves every ExpectedOutputs after the
\* second run as it was after the first, and no update run changes an
\* Inputs folder.
C7_UpdateIdempotent ==
    (run_type = "update") =>
        /\ InputsOf(snap) = InputsOf(snap0)
        /\ (Terminal /\ prev.type = "update") => ExpectedOf(snap) = ExpectedOf(prev.snap)

C7_Witness ==
    /\ run_type = "update"
    /\ pc = "done"
    /\ prev.type = "update"
    /\ \E e \in snap.entries :
         /\ LooksLikeCase(e)
         /\ e.expected = Dir({DfCsv(1)})
         /\ "create_output_files" \in DOMAIN e.inputs.dict
         /\ e.inputs.dict["create_output_files"] = TRUE

\* C8: find_cases returns exactly the immediate subdirectories of the
\* snapshots directory whose name begins with Case, each once: no regular
\* file, no directory of another name; nothing when the directory is missing.
C8_FindCasesExact ==
    (run_type \in {"compare", "update"}) =>
        /\ Range(cases) = IF snap0.exists
                          THEN {e.name : e \in {x \in snap0.entries : LooksLikeCase(x)}}
                          ELSE {}
        /\ \A i, j \in DOMAIN cases : i # j => cases[i] # cases[j]

C8_Witness ==
    /\ run_type = "compare"
    /\ Len(cases) = 2
    /\ \E e \in snap0.entries : e.kind = "file" /\ startswith(e.name, CasePrefix)
    /\ \E e \in snap0.entries : e.kind = "dir" /\ ~startswith(e.name, CasePrefix)

\* Members of the two archives, told without the comparison loop
SharedDiffer ==
    \E i \in DOMAIN fn.data, j \in DOMAIN fn.expected_data :
        /\ fn.data[i].name = fn.expected_data[j].name
        /\ Abs(fn.data[i].val - fn.expected_data[j].val) > ABSOLUTE_TOLERANCE

\* C9: assert_npz checks the member names first: different key sets give
\* KeyError before any element-wise comparison, even when every shared
\* member is equal; equal key sets with a member differing beyond tolerance
\* give AssertionError, never KeyError.
C9_KeysFirst ==
    fn.done =>
        /\ (Names(fn.data) # Names(fn.expected_data)) =>
              (fn.err = "KeyError" /\ fn.compared = <<>>)
        /\ (Names(fn.data) = Names(fn.expected_data) /\ SharedDiffer) =>
              fn.err = "AssertionError"
        /\ (Names(fn.data) = Names(fn.expected_data) /\ ~SharedDiffer) =>
              fn.err = NoError

C9_Witness ==
    /\ fn.done
    /\ fn.err = "KeyError"
    /\ Names(fn.expected_data) # {}
    /\ Names(fn.expected_data) \subseteq Names(fn.data)
    /\ ~SharedDiffer

\* The cases after the one being processed are as the call found them.
LaterCasesUntouched ==
    \A j \in (idx + 1)..Len(cases) : Entry(snap, cases[j]) = Entry(snap0, cases[j])

\* C10: in compare and update mode the cases are processed one after
\* another and the first error ends the run: the error reaches the caller,
\* no further file of the case is compared and no later case is loaded,
\* run, exported or compared.
C10_FirstErrorEndsRun ==
    /\ [](run_type \in {"compare", "update"} =>
            /\ err # NoError => pc = "failed"
            /\ pc = "failed" => err # NoError
            /\ idx <= Len(cases) => LaterCasesUntouched)
    /\ [][(run_type \in {"compare", "update"} /\ pc = "failed") => runs' = runs + 1]_vars

C10_Witness ==
    /\ run_type = "update"
    /\ pc = "failed"
    /\ idx < Len(cases)
    /\ \E j \in (idx + 1)..Len(cases) :
         Entry(snap, cases[j]).expected # Dir({DfCsv(1)})

\* The case directories of the snapshots directory s
CaseDirsOf(s) == IF s.exists THEN {e \in s.entries : LooksLikeCase(e)} ELSE {}

\* C11: with a non-empty set of existing cases, the number chosen by
\* create_new_case_folder is the number of no existing case, so a create run
\* leaves every case directory it found as it was, Inputs and
\* ExpectedOutputs included, and adds exactly one case directory.
C11_CreateAddsOne ==
    (run_type = "create" /\ CaseNumbers(snap0) # {}) =>
        /\ alloc # None
        /\ alloc \notin CaseNumbers(snap0)
        /\ CaseName(alloc) \notin {e.name : e \in snap0.entries}
        /\ CaseDirsOf(snap0) \subseteq CaseDirsOf(snap)
        /\ Cardinality(CaseDirsOf(snap)) = Cardinality(CaseDirsOf(snap0)) + 1
        /\ \E e \in CaseDirsOf(snap) \ CaseDirsOf(snap0) : e.name = CaseName(alloc)

C11_Witness ==
    /\ run_type = "create"
    /\ pc = "done"
    /\ runs = 2
    /\ Cardinality(CaseDirsOf(snap)) = Cardinality(CaseDirsOf(snap0)) + 1
    /\ Cardinality(CaseDirsOf(snap0)) >= 2
    /\ \E e \in CaseDirsOf(snap0) : e.inputs.file /\ e.expected.state = "dir"

====
